---- MODULE Spec2Model ----
(***************************************************************************)
(* Model of rtlib (rt_challenge_rust): the 2D pixel Canvas, its indexing   *)
(* and iteration, and its serialization to the PPM formats P3 (ASCII) and  *)
(* P6 (binary) through a caller-supplied byte sink; and the Float and      *)
(* Tuple algebra (comparison, sum, difference, cross product, magnitude,   *)
(* normalization).                                                         *)
(*                                                                         *)
(* Representation.                                                         *)
(*  - In the Float and Tuple algebra a Float is NaN, an infinity or a      *)
(*    finite count of 1/ScalarUnit (see "scalars" below); a Tuple is the   *)
(*    sequence <<x, y, z, w>> of its elements.                             *)
(*  - In a Color on the canvas a Float is finite and is written as an      *)
(*    integer count of 1/FloatUnit; every                                  *)
(*    channel value used below is one whose product with 255.0 is exact in *)
(*    f64 and far inside the i32 range, so that round() and `as i32` are   *)
(*    the exact operations written here.                                   *)
(*  - A Color is its `elements` array, a sequence <<r, g, b>> of Floats.   *)
(*  - A Canvas is the record [data, dim] of the struct; data is 1-based    *)
(*    here, so the Rust element data[i] is data[i + 1].                    *)
(*  - The sink is a record [bytes, calls, failAt]: the bytes it accepted,  *)
(*    the number of write_all calls it received, and the 0-based number of *)
(*    the call it fails (NoFail: none).  An io::Result<()> is the record   *)
(*    [ok, err]; the error a sink raises at call k is identified with k.   *)
(*  - Output text is a sequence of bytes (ASCII codes).                    *)
(***************************************************************************)
EXTENDS Integers, Sequences, FiniteSets, TLC

\* ------------------------------------------------------------------ bounds
\* Canvas life-cycle specification (Spec): dimensions 0..MaxDim each way,
\* at most MaxOps mutations after construction.
MaxDim == 2
MaxOps == 2
\* Failing-sink specification (SpecIO): dimensions 0..MaxIODim each way,
\* at most MaxIOOps mutations.
MaxIODim == 2
MaxIOOps == 1
\* Line-wrap specification (SpecWrap): width 0..MaxWrapWidth,
\* height 0..MaxWrapHeight, at most MaxWrapOps mutations.
MaxWrapWidth == 10
MaxWrapHeight == 2
MaxWrapOps == 1
\* Iteration specification (SpecIter): dimensions 0..MaxIterDim each way,
\* at most MaxIterOps mutations, at most MaxWalks iterations in a row.
MaxIterDim == 2
MaxIterOps == 2
MaxWalks == 2
\* Scalar comparison specification (SpecFloat): operands within MaxOffset
\* steps of 1 / ScalarUnit around 0.0 and 1.0.
MaxOffset == 6
\* Tuple arithmetic specification (SpecTuple): finite x components
\* -MaxCoord..MaxCoord, finite y components 0..MaxCoord.
MaxCoord == 1
\* Normalization specification (SpecNorm): finite components
\* -MaxNorm..MaxNorm.
MaxNorm == 2

\* ------------------------------------------------------- program constants
\* Fixed-point resolution of the model of f64.
FloatUnit == 1000000
\* canvas/mod.rs:100  (float.0 * 255.0)
ChannelScale == 255
\* canvas/mod.rs:100  clamp(0, 255)
U8Max == 255
\* canvas/mod.rs:111  line_width + 1 + s.len() > 70
MaxLineWidth == 70

\* ASCII codes of the literal text the writers emit.
NL == 10
SP == 32
Digit0 == 48
MagicP3 == <<80, 51, 10>>
MagicP6 == <<80, 54, 10>>
MaxvalLine == <<10, 50, 53, 53, 10>>

\* ------------------------------------------------------------------ colors
\* Color::new / new_from_underlying
Color(r, g, b) == <<r, g, b>>
get_r(c) == c[1]
get_g(c) == c[2]
get_b(c) == c[3]

\* The black of Canvas::new: Color::new_from_underlying(0.0, 0.0, 0.0)
Black == Color(0, 0, 0)

\* Colors the callers write: (1.0, 0.8, 0.6) of write_data_long_lines,
\* (1.5, 0.5, -0.5) combining the channels of tests::write_data, and
\* (0.1, 0.2, 0.4) whose bytes have two and three digits.
LongLinesColor == Color(FloatUnit, (8 * FloatUnit) \div 10, (6 * FloatUnit) \div 10)
ClampedColor == Color((15 * FloatUnit) \div 10, FloatUnit \div 2, -(FloatUnit \div 2))
DimColor == Color(FloatUnit \div 10, (2 * FloatUnit) \div 10, (4 * FloatUnit) \div 10)
Palette == {LongLinesColor, ClampedColor, DimColor}

\* ------------------------------------------------------------- coordinates
\* Coord2D::new
Coord2D(x, y) == [x |-> x, y |-> y]

\* Coord2D::new_from_index, mutated (below): quotient and remainder trade
\* places.
\* Coord2D::new_from_index; index % 0 and index / 0 panic in Rust, the
\* callers below only reach it with dim.x > 0.
new_from_index_swapped(index, dim) == Coord2D(index \div dim.x, index % dim.x)

new_from_index(index, dim) == Coord2D(index % dim.x, index \div dim.x)

\* Coord2D::to_index, mutated: the row is not scaled by the width.
to_index_no_stride(c, dim) == c.x + c.y

\* Coord2D::to_index, mutated: the row is scaled by the height.
to_index_stride_y(c, dim) == c.x + dim.y * c.y

\* Coord2D::to_index
to_index(c, dim) == c.x + dim.x * c.y

\* ------------------------------------------------------------------ canvas
\* vec![elem; n]
RepeatColor(elem, n) == [i \in 1..n |-> elem]

\* Canvas::new, mutated: the last cell is not black.
NewDirty(dim) ==
    [ data |-> [i \in 1..(dim.x * dim.y) |->
                  IF i = dim.x * dim.y THEN Color(FloatUnit, 0, 0) ELSE Black],
      dim |-> dim ]

\* Canvas::new
New(dim) == [ data |-> RepeatColor(Black, dim.x * dim.y), dim |-> dim ]

\* Canvas::get_dim, Canvas::size
get_dim(cv) == cv.dim
size(cv) == cv.dim.x * cv.dim.y

\* Vec bounds check of data[index]: TRUE when the access panics.
IndexPanics(cv, index) == index >= Len(cv.data)

\* Canvas::iter: the (coordinate, color) pairs in storage order.
iter(cv) ==
    [i \in 1..Len(cv.data) |->
        [coord |-> new_from_index(i - 1, cv.dim), color |-> cv.data[i]]]

\* Canvas::iter_mut: the (coordinate, cell) pairs in storage order; a cell
\* is shown by the color it holds when it is yielded.
iter_mut(cv) ==
    [i \in 1..Len(cv.data) |->
        [coord |-> new_from_index(i - 1, cv.dim), color |-> cv.data[i]]]

\* A closure handed to iter_mut().for_each: assign v to every cell, or to
\* the cells of row y only.
FillAll(v) == [kind |-> "all", y |-> 0, v |-> v]
FillRow(y, v) == [kind |-> "row", y |-> y, v |-> v]
ApplyClosure(f, coord, color) ==
    IF f.kind = "all" \/ coord.y = f.y THEN f.v ELSE color

\* Canvas::iter_mut followed by for_each(f), mutated: the grid is rebuilt
\* without its last cell.
iter_mut_for_each_short(cv, f) ==
    [cv EXCEPT !.data =
        [i \in 1..(Len(cv.data) - 1) |->
            ApplyClosure(f, new_from_index(i - 1, cv.dim), cv.data[i])]]

\* Canvas::iter_mut followed by for_each(f)
iter_mut_for_each(cv, f) ==
    [cv EXCEPT !.data =
        [i \in 1..Len(cv.data) |->
            ApplyClosure(f, new_from_index(i - 1, cv.dim), cv.data[i])]]

\* ------------------------------------------------------ byte representation
\* f64::round: to the nearest integer, halves away from zero; n is the
\* product in units of 1/FloatUnit.
round(n) ==
    IF n >= 0 THEN (2 * n + FloatUnit) \div (2 * FloatUnit)
    ELSE -((2 * (-n) + FloatUnit) \div (2 * FloatUnit))

\* i32::clamp
clamp(n, lo, hi) == IF n < lo THEN lo ELSE IF n > hi THEN hi ELSE n

\* Canvas::u8_representation, mutated: the product is truncated (a bare
\* `as i32` cast) instead of rounded.
u8_representation_trunc(float) ==
    clamp(IF float >= 0 THEN (float * ChannelScale) \div FloatUnit
          ELSE -(((-float) * ChannelScale) \div FloatUnit), 0, U8Max)

\* Canvas::u8_representation
u8_representation(float) == clamp(round(float * ChannelScale), 0, U8Max)

\* format!("{}", n) of an unsigned integer: its decimal digits, most
\* significant first, as ASCII bytes.
RECURSIVE format(_)
format(n) ==
    IF n < 10 THEN <<Digit0 + n>>
    ELSE Append(format(n \div 10), Digit0 + (n % 10))

\* -------------------------------------------------------------------- sink
NoFail == -1
OkResult == [ok |-> TRUE, err |-> NoFail]
ErrResult(k) == [ok |-> FALSE, err |-> k]
NewSink(failAt) == [bytes |-> <<>>, calls |-> 0, failAt |-> failAt]

\* A writer in progress: the sink, the io::Result so far, and the
\* line_width local of write_data.
Writer(sink) == [sink |-> sink, res |-> OkResult, line_width |-> 0]

\* One write_all call on the sink: it fails at call number failAt, and
\* accepts the whole chunk otherwise.
write_all(sink, chunk) ==
    IF sink.calls = sink.failAt
    THEN [sink |-> [sink EXCEPT !.calls = @ + 1], res |-> ErrResult(sink.calls)]
    ELSE [sink |-> [sink EXCEPT !.calls = @ + 1, !.bytes = @ \o chunk],
          res |-> OkResult]

\* `write!(f, ..)?`, mutated: the result of the write is dropped and the
\* writer carries on.
TryWriteIgnoringError(w, chunk) ==
    LET r == write_all(w.sink, chunk)
    IN  [w EXCEPT !.sink = r.sink, !.res = IF w.res.ok THEN r.res ELSE w.res]

\* `write!(f, ..)?` of one piece of text: nothing is written once an
\* earlier write has failed (the `?` has returned), otherwise the piece
\* goes to the sink and its result becomes the writer's.
TryWrite(w, chunk) ==
    IF ~w.res.ok THEN w
    ELSE LET r == write_all(w.sink, chunk)
         IN  [w EXCEPT !.sink = r.sink, !.res = r.res]

\* write!(f, "{magic}\n{} {}\n255\n", dim.x, dim.y): fmt::write hands the
\* literal pieces and the formatted arguments to the sink one by one and
\* stops at the first error.
WriteHeaderPieces(w, magic, dim) ==
    LET w1 == TryWrite(w, magic)
        w2 == TryWrite(w1, format(dim.x))
        w3 == TryWrite(w2, <<SP>>)
        w4 == TryWrite(w3, format(dim.y))
    IN  TryWrite(w4, MaxvalLine)

\* Canvas::write_header, mutated: height before width.
write_header_swapped(cv, w) ==
    WriteHeaderPieces(w, MagicP3, Coord2D(cv.dim.y, cv.dim.x))

\* Canvas::write_header
write_header(cv, w) == WriteHeaderPieces(w, MagicP3, cv.dim)

\* Canvas::write_binary_header
write_binary_header(cv, w) == WriteHeaderPieces(w, MagicP6, cv.dim)

\* The do_write closure of write_data, mutated: the separating space is not
\* counted when deciding to wrap.
do_write_no_sep(w, float, force_reset) ==
    LET s  == format(u8_representation(float))
        brk == force_reset \/ w.line_width + Len(s) > MaxLineWidth
        w1 == IF brk THEN [TryWrite(w, <<NL>>) EXCEPT !.line_width = 0] ELSE w
        sep == w1.line_width > 0
        w2 == IF sep THEN [TryWrite(w1, <<SP>>) EXCEPT !.line_width = @ + 1] ELSE w1
    IN  [TryWrite(w2, s) EXCEPT !.line_width = @ + Len(s)]

\* The do_write closure of write_data, mutated: force_reset is ignored.
do_write_no_reset(w, float, force_reset) ==
    LET s  == format(u8_representation(float))
        brk == w.line_width + 1 + Len(s) > MaxLineWidth
        w1 == IF brk THEN [TryWrite(w, <<NL>>) EXCEPT !.line_width = 0] ELSE w
        sep == w1.line_width > 0
        w2 == IF sep THEN [TryWrite(w1, <<SP>>) EXCEPT !.line_width = @ + 1] ELSE w1
    IN  [TryWrite(w2, s) EXCEPT !.line_width = @ + Len(s)]

\* The do_write closure of write_data, mutated: line_width is not reset
\* when a line is broken.
do_write_keep_width(w, float, force_reset) ==
    LET s  == format(u8_representation(float))
        brk == force_reset \/ w.line_width + 1 + Len(s) > MaxLineWidth
        w1 == IF brk THEN TryWrite(w, <<NL>>) ELSE w
        sep == w1.line_width > 0
        w2 == IF sep THEN [TryWrite(w1, <<SP>>) EXCEPT !.line_width = @ + 1] ELSE w1
    IN  [TryWrite(w2, s) EXCEPT !.line_width = @ + Len(s)]

\* The do_write closure of write_data (mod.rs 109-122).  Each `?` is a
\* TryWrite; line_width after a failed write is never read again.
do_write(w, float, force_reset) ==
    LET s  == format(u8_representation(float))
        brk == force_reset \/ w.line_width + 1 + Len(s) > MaxLineWidth
        w1 == IF brk THEN [TryWrite(w, <<NL>>) EXCEPT !.line_width = 0] ELSE w
        sep == w1.line_width > 0
        w2 == IF sep THEN [TryWrite(w1, <<SP>>) EXCEPT !.line_width = @ + 1] ELSE w1
    IN  [TryWrite(w2, s) EXCEPT !.line_width = @ + Len(s)]

\* One pass of the for loop of write_data, mutated: blue is written before
\* green.
WriteDataPixel_bgr(w, p) ==
    LET w1 == do_write(w, get_r(p.color), p.coord.x = 0 /\ p.coord.y > 0)
        w2 == do_write(w1, get_b(p.color), FALSE)
    IN  do_write(w2, get_g(p.color), FALSE)

\* One pass of the for loop of write_data over the pair it[i].
WriteDataPixel(w, p) ==
    LET w1 == do_write(w, get_r(p.color), p.coord.x = 0 /\ p.coord.y > 0)
        w2 == do_write(w1, get_g(p.color), FALSE)
    IN  do_write(w2, get_b(p.color), FALSE)

\* The for loop of write_data over the pairs it[i..]; a failed `?` leaves
\* the loop.
RECURSIVE WriteDataLoop(_, _, _)
WriteDataLoop(w, it, i) ==
    IF i > Len(it) \/ ~w.res.ok THEN w
    ELSE WriteDataLoop(WriteDataPixel(w, it[i]), it, i + 1)

\* Canvas::write_data: the loop, then the closing writeln!(f).
write_data(cv, w) == TryWrite(WriteDataLoop(w, iter(cv), 1), <<NL>>)

\* One pass of the for loop of write_binary_data: three one-byte writes.
WriteBinaryPixel(w, p) ==
    LET w1 == TryWrite(w, <<u8_representation(get_r(p.color))>>)
        w2 == TryWrite(w1, <<u8_representation(get_g(p.color))>>)
    IN  TryWrite(w2, <<u8_representation(get_b(p.color))>>)

RECURSIVE WriteBinaryLoop(_, _, _)
WriteBinaryLoop(w, it, i) ==
    IF i > Len(it) \/ ~w.res.ok THEN w
    ELSE WriteBinaryLoop(WriteBinaryPixel(w, it[i]), it, i + 1)

\* Canvas::write_binary_data, mutated: a separator follows every pixel.
write_binary_data_sep(cv, w) ==
    LET RECURSIVE Loop(_, _)
        Loop(x, i) ==
            IF i > Len(cv.data) \/ ~x.res.ok THEN x
            ELSE Loop(TryWrite(WriteBinaryPixel(x, iter(cv)[i]), <<SP>>), i + 1)
    IN  TryWrite(Loop(w, 1), <<NL>>)

\* Canvas::write_binary_data
write_binary_data(cv, w) == TryWrite(WriteBinaryLoop(w, iter(cv), 1), <<NL>>)

\* Canvas::write_ppm: write_header(f)?; write_data(f)
write_ppm(cv, sink) ==
    LET w == write_header(cv, Writer(sink))
    IN  IF w.res.ok THEN write_data(cv, w) ELSE w

\* Canvas::write_binary_ppm: write_binary_header(f)?; write_binary_data(f)
write_binary_ppm(cv, sink) ==
    LET w == write_binary_header(cv, Writer(sink))
    IN  IF w.res.ok THEN write_binary_data(cv, w) ELSE w

\* ----------------------------------------------------------------- scalars
\* The f64 values the Float and Tuple computations below work on: NaN, the
\* two infinities, and the finite values n / ScalarUnit.  ScalarUnit is a
\* power of two (UnitRoot squared), so each of these finite values is an
\* f64 and their sums and differences are computed by f64 without rounding.
\* Products, quotients and square roots are rounded to the nearest multiple
\* of 1 / ScalarUnit, where f64 rounds to 53 significant bits.  Zero has no
\* sign here, and no finite result comes near f64::MAX.
UnitRoot == 1024
ScalarUnit == UnitRoot * UnitRoot

NaN == [cls |-> "nan", n |-> 0]
Infinity(s) == [cls |-> "inf", n |-> s]
Finite(n) == [cls |-> "finite", n |-> n]

\* The literal k.0 and the ratio p / q of two small integers, q a power of
\* two.
Whole(k) == Finite(k * ScalarUnit)
Ratio(p, q) == Finite(p * (ScalarUnit \div q))

is_nan(f) == f.cls = "nan"
is_finite(f) == f.cls = "finite"
Sign(n) == IF n > 0 THEN 1 ELSE IF n < 0 THEN -1 ELSE 0
AbsInt(n) == IF n < 0 THEN -n ELSE n

\* f64::abs
f64_abs(f) ==
    CASE f.cls = "nan" -> NaN
      [] f.cls = "inf" -> Infinity(1)
      [] OTHER -> Finite(AbsInt(f.n))

\* The f64 comparisons < and >: false when an operand is NaN.
f64_lt(a, b) ==
    CASE is_nan(a) \/ is_nan(b) -> FALSE
      [] a.cls = "inf" /\ b.cls = "inf" -> a.n < b.n
      [] a.cls = "inf" -> a.n < 0
      [] b.cls = "inf" -> b.n > 0
      [] OTHER -> a.n < b.n
f64_gt(a, b) == f64_lt(b, a)

\* prelude::EPSILON = 0.00001 = 1 / EpsilonInverse.  It is no multiple of
\* 1 / ScalarUnit, so n / ScalarUnit < EPSILON exactly when n is at most
\* EpsilonFloor.
EpsilonInverse == 100000
EpsilonFloor == ScalarUnit \div EpsilonInverse

\* `x < EPSILON` for an f64 x of the model.
lt_EPSILON(f) ==
    CASE is_nan(f) -> FALSE
      [] f.cls = "inf" -> f.n < 0
      [] OTHER -> f.n <= EpsilonFloor

\* impl Neg for Float
Float_neg(f) ==
    CASE f.cls = "nan" -> NaN
      [] f.cls = "inf" -> Infinity(-f.n)
      [] OTHER -> Finite(-f.n)

\* impl AddAssign / Add for Float: self.0 += rhs.0
Float_add(a, b) ==
    CASE is_nan(a) \/ is_nan(b) -> NaN
      [] a.cls = "inf" /\ b.cls = "inf" -> IF a.n = b.n THEN a ELSE NaN
      [] a.cls = "inf" -> a
      [] b.cls = "inf" -> b
      [] OTHER -> Finite(a.n + b.n)

\* impl SubAssign / Sub for Float, mutated: the operands trade places.
Float_sub_reversed(a, b) ==
    CASE is_nan(a) \/ is_nan(b) -> NaN
      [] a.cls = "inf" /\ b.cls = "inf" -> IF a.n = -b.n THEN b ELSE NaN
      [] a.cls = "inf" -> Infinity(-a.n)
      [] b.cls = "inf" -> b
      [] OTHER -> Finite(b.n - a.n)

\* impl SubAssign / Sub for Float: self.0 -= rhs.0
Float_sub(a, b) ==
    CASE is_nan(a) \/ is_nan(b) -> NaN
      [] a.cls = "inf" /\ b.cls = "inf" -> IF a.n = -b.n THEN a ELSE NaN
      [] a.cls = "inf" -> a
      [] b.cls = "inf" -> Infinity(-b.n)
      [] OTHER -> Finite(a.n - b.n)

\* impl PartialEq for Float, mutated: the difference is compared without
\* taking its absolute value.
Float_eq_no_abs(a, b) == lt_EPSILON(Float_sub(a, b))

\* impl PartialEq for Float: (self.0 - other.0).abs() < EPSILON
Float_eq(a, b) == lt_EPSILON(f64_abs(Float_sub(a, b)))

\* Option<Ordering>: Some(o) is <<o>>, None is <<>>.
\* impl PartialOrd for Float, mutated: the raw order is consulted first.
Float_partial_cmp_raw_first(a, b) ==
    IF f64_lt(a, b) THEN <<"Less">>
    ELSE IF f64_gt(a, b) THEN <<"Greater">>
    ELSE IF Float_eq(a, b) THEN <<"Equal">>
    ELSE <<>>

\* impl PartialOrd for Float: partial_cmp
Float_partial_cmp(a, b) ==
    IF Float_eq(a, b) THEN <<"Equal">>
    ELSE IF f64_lt(a, b) THEN <<"Less">>
    ELSE IF f64_gt(a, b) THEN <<"Greater">>
    ELSE <<>>

\* The operators < and > that PartialOrd derives from partial_cmp.
Float_lt(a, b) == Float_partial_cmp(a, b) = <<"Less">>
Float_gt(a, b) == Float_partial_cmp(a, b) = <<"Greater">>

\* The product m * n / ScalarUnit of two counts m, n >= 0, to the nearest
\* count, ties to even; computed on the halves of m and n to stay within
\* the integers at hand.
MulUnits(m, n) ==
    LET m1 == m \div UnitRoot
        m0 == m % UnitRoot
        n1 == n \div UnitRoot
        n0 == n % UnitRoot
        mid == m1 * n0 + m0 * n1
        low == (mid % UnitRoot) * UnitRoot + m0 * n0
        q == m1 * n1 + (mid \div UnitRoot) + (low \div ScalarUnit)
        r == low % ScalarUnit
    IN  IF 2 * r > ScalarUnit \/ (2 * r = ScalarUnit /\ q % 2 = 1) THEN q + 1 ELSE q

\* impl MulAssign / Mul for Float: self.0 *= rhs.0
Float_mul(a, b) ==
    CASE is_nan(a) \/ is_nan(b) -> NaN
      [] a.cls = "inf" \/ b.cls = "inf" ->
            IF a.n = 0 \/ b.n = 0 THEN NaN ELSE Infinity(Sign(a.n) * Sign(b.n))
      [] OTHER -> Finite(Sign(a.n) * Sign(b.n) * MulUnits(AbsInt(a.n), AbsInt(b.n)))

\* Long division: k more binary digits of the quotient q with remainder r
\* of a division by n.
RECURSIVE DivSteps(_, _, _, _)
DivSteps(q, r, n, k) ==
    IF k = 0 THEN [q |-> q, r |-> r]
    ELSE IF 2 * r >= n THEN DivSteps(2 * q + 1, 2 * r - n, n, k - 1)
         ELSE DivSteps(2 * q, 2 * r, n, k - 1)

\* The binary digits of ScalarUnit after the leading one.
RECURSIVE Log2(_)
Log2(n) == IF n <= 1 THEN 0 ELSE 1 + Log2(n \div 2)
UnitBits == Log2(ScalarUnit)

\* The quotient m * ScalarUnit / n of two counts m >= 0, n > 0, to the
\* nearest count, ties to even.
DivUnits(m, n) ==
    LET d == DivSteps(m \div n, m % n, n, UnitBits)
    IN  IF 2 * d.r > n \/ (2 * d.r = n /\ d.q % 2 = 1) THEN d.q + 1 ELSE d.q

\* impl DivAssign / Div for Float: self.0 /= rhs.0.  A zero divisor is +0.0.
Float_div(a, b) ==
    CASE is_nan(a) \/ is_nan(b) -> NaN
      [] a.cls = "inf" /\ b.cls = "inf" -> NaN
      [] a.cls = "inf" -> Infinity(IF b.n < 0 THEN -a.n ELSE a.n)
      [] b.cls = "inf" -> Finite(0)
      [] b.n = 0 -> IF a.n = 0 THEN NaN ELSE Infinity(Sign(a.n))
      [] OTHER -> Finite(Sign(a.n) * Sign(b.n) * DivUnits(AbsInt(a.n), AbsInt(b.n)))

\* The integer square root of n with its remainder, digit by digit.
RECURSIVE IsqrtRem(_)
IsqrtRem(n) ==
    IF n = 0 THEN [r |-> 0, rem |-> 0]
    ELSE LET p == IsqrtRem(n \div 4)
             rem == 4 * p.rem + (n % 4)
             t == 4 * p.r + 1
         IN  IF rem >= t THEN [r |-> 2 * p.r + 1, rem |-> rem - t]
             ELSE [r |-> 2 * p.r, rem |-> rem]

\* k more binary digits of a square root, the radicand continued by zeros.
RECURSIVE SqrtSteps(_, _)
SqrtSteps(p, k) ==
    IF k = 0 THEN p
    ELSE LET rem == 4 * p.rem
             t == 4 * p.r + 1
         IN  SqrtSteps(IF rem >= t THEN [r |-> 2 * p.r + 1, rem |-> rem - t]
                       ELSE [r |-> 2 * p.r, rem |-> rem], k - 1)

\* The square root of the count n >= 0, as a count: sqrt(n * ScalarUnit)
\* to the nearest integer.
SqrtUnits(n) ==
    LET p == SqrtSteps(IsqrtRem(n), UnitBits \div 2)
    IN  IF p.rem > p.r THEN p.r + 1 ELSE p.r

\* Float::sqrt
Float_sqrt(f) ==
    CASE is_nan(f) -> NaN
      [] f.cls = "inf" -> IF f.n > 0 THEN f ELSE NaN
      [] f.n < 0 -> NaN
      [] OTHER -> Finite(SqrtUnits(f.n))

\* impl Sum<Float> for Float: the f64 sum of the elements, from 0.0, in
\* order.
RECURSIVE SumFrom(_, _, _)
SumFrom(acc, elems, i) ==
    IF i > Len(elems) THEN acc
    ELSE SumFrom(Float_add(acc, elems[i]), elems, i + 1)
Float_sum(elems) == SumFrom(Finite(0), elems, 1)

\* ------------------------------------------------------------------ tuples
\* A Tuple is its `elements` array, a sequence <<x, y, z, w>> of Floats.
\* Tuple::new, Tuple::zero, Tuple::point, Tuple::vector
Tuple_new(x, y, z, w) == <<x, y, z, w>>
zero == Tuple_new(Whole(0), Whole(0), Whole(0), Whole(0))
point(x, y, z) == Tuple_new(x, y, z, Whole(1))
vector(x, y, z) == Tuple_new(x, y, z, Whole(0))

get_x(t) == t[1]
get_y(t) == t[2]
get_z(t) == t[3]
get_w(t) == t[4]

\* Tuple::is_point, Tuple::is_vector: elements[3] == 1.0, elements[3] == 0.0
is_point(t) == Float_eq(t[4], Whole(1))
is_vector(t) == Float_eq(t[4], Whole(0))

\* #[derive(PartialEq)] on Tuple: the elements compared in turn with ==.
Tuple_eq(a, b) == \A i \in 1..4 : Float_eq(a[i], b[i])

\* impl AddAssign / Add for Tuple, mutated: w is left out of the sum.
Tuple_add_xyz(a, b) ==
    [i \in 1..4 |-> IF i = 4 THEN a[i] ELSE Float_add(a[i], b[i])]

\* impl AddAssign / Add for Tuple
Tuple_add(a, b) == [i \in 1..4 |-> Float_add(a[i], b[i])]

\* impl SubAssign / Sub for Tuple, mutated: w is left out of the difference.
Tuple_sub_xyz(a, b) ==
    [i \in 1..4 |-> IF i = 4 THEN a[i] ELSE Float_sub(a[i], b[i])]

\* impl SubAssign / Sub for Tuple
Tuple_sub(a, b) == [i \in 1..4 |-> Float_sub(a[i], b[i])]

\* impl Neg for Tuple
Tuple_neg(t) ==
    Tuple_new(Float_neg(get_x(t)), Float_neg(get_y(t)),
              Float_neg(get_z(t)), Float_neg(get_w(t)))

\* impl DivAssign<Float> / Div<Float> for Tuple
Tuple_div(t, rhs) == [i \in 1..4 |-> Float_div(t[i], rhs)]

\* Tuple::magnitude
magnitude(t) == Float_sqrt(Float_sum([i \in 1..4 |-> Float_mul(t[i], t[i])]))

\* Tuple::normalize, mutated: the tuple is divided by its squared
\* magnitude.
normalize_by_square(t) ==
    Tuple_div(t, Float_sum([i \in 1..4 |-> Float_mul(t[i], t[i])]))

\* Tuple::normalize
normalize(t) == Tuple_div(t, magnitude(t))

\* impl Rem for Tuple, mutated: the products of the third component are
\* added.
Tuple_rem_plus(a, b) ==
    vector(
        Float_sub(Float_mul(get_y(a), get_z(b)), Float_mul(get_z(a), get_y(b))),
        Float_sub(Float_mul(get_z(a), get_x(b)), Float_mul(get_x(a), get_z(b))),
        Float_add(Float_mul(get_x(a), get_y(b)), Float_mul(get_y(a), get_x(b))))

\* impl Rem for Tuple: the cross product
Tuple_rem(a, b) ==
    vector(
        Float_sub(Float_mul(get_y(a), get_z(b)), Float_mul(get_z(a), get_y(b))),
        Float_sub(Float_mul(get_z(a), get_x(b)), Float_mul(get_x(a), get_z(b))),
        Float_sub(Float_mul(get_x(a), get_y(b)), Float_mul(get_y(a), get_x(b))))

\* ------------------------------------------------------------------- state
VARIABLES
    canvas,   \* the Canvas: [data, dim]
    dim0,     \* the dimension handed to Canvas::new
    ops,      \* mutations since construction
    status,   \* "running", or "panicked" once an index was out of bounds
    read,     \* the result of the last index read while no other call has
              \* followed it: <<[coord, index, val]>>, coord being <<c>> for
              \* a read by coordinate and <<>> for one by linear index;
              \* <<>> otherwise
    expect,   \* colors last stored by in-range coordinate writes and not
              \* touched by any other kind of mutation since: {[at, val]}
    io,       \* the last serialization: [format, sink, res]
    walk,     \* the pair sequences collected by the iterations run since
              \* the last mutation, oldest first: <<[kind, pairs], ..>>
    calc      \* the last Float or Tuple computation: [op, a, b, out]

vars == <<canvas, dim0, ops, status, read, expect, io, walk, calc>>

IoIdle == [format |-> "none", sink |-> NewSink(NoFail), res |-> OkResult]
IoDone(fmt, w) == [format |-> fmt, sink |-> w.sink, res |-> w.res]

\* No Float or Tuple computation has run.
NoCalc == [op |-> "none", a |-> <<>>, b |-> <<>>, out |-> <<>>]

\* A coordinate the caller may legitimately index with.
InRange(c, dim) == c.x < dim.x /\ c.y < dim.y

\* The state right after Canvas::new(Coord2D::new(x, y)).
Constructed(x, y) ==
    /\ canvas = New(Coord2D(x, y))
    /\ dim0 = Coord2D(x, y)
    /\ ops = 0
    /\ status = "running"
    /\ read = <<>>
    /\ expect = {}
    /\ io = IoIdle
    /\ walk = <<>>
    /\ calc = NoCalc

\* impl Index<Coord2D> for Canvas: the read canvas[c].
IndexCoordAt(c) ==
    LET index == to_index(c, canvas.dim)
    IN  /\ status = "running"
        /\ IF IndexPanics(canvas, index)
           THEN status' = "panicked" /\ read' = <<>>
           ELSE status' = status
                /\ read' = <<[coord |-> <<c>>, index |-> index,
                              val |-> canvas.data[index + 1]]>>
        /\ io' = IoIdle
        /\ UNCHANGED <<canvas, dim0, ops, expect, walk, calc>>

IndexCoord(W, H) == \E x \in 0..(W + 1), y \in 0..(H + 1) : IndexCoordAt(Coord2D(x, y))

\* impl IndexMut<Coord2D> for Canvas: the write canvas[c] = v.
IndexMutCoordAt(c, v) ==
    LET index == to_index(c, canvas.dim)
    IN  /\ status = "running"
        /\ IF IndexPanics(canvas, index)
           THEN /\ status' = "panicked"
                /\ UNCHANGED <<canvas, ops, expect>>
           ELSE /\ status' = status
                /\ canvas' = [canvas EXCEPT !.data[index + 1] = v]
                /\ ops' = ops + 1
                /\ expect' =
                     IF InRange(c, canvas.dim)
                     THEN {e \in expect : e.at # c} \cup {[at |-> c, val |-> v]}
                     ELSE {}
        /\ read' = <<>>
        /\ io' = IoIdle
        /\ walk' = <<>>
        /\ UNCHANGED <<dim0, calc>>

IndexMutCoord(W, H, maxOps, colors) ==
    /\ ops < maxOps
    /\ \E x \in 0..(W + 1), y \in 0..(H + 1), v \in colors :
         IndexMutCoordAt(Coord2D(x, y), v)

\* impl Index<usize> for Canvas: the read canvas[index].
IndexUsize(W, H) ==
    /\ status = "running"
    /\ \E index \in 0..(W * H) :
         IF IndexPanics(canvas, index)
         THEN status' = "panicked" /\ read' = <<>>
         ELSE status' = status
              /\ read' = <<[coord |-> <<>>, index |-> index,
                            val |-> canvas.data[index + 1]]>>
    /\ io' = IoIdle
    /\ UNCHANGED <<canvas, dim0, ops, expect, walk, calc>>

\* impl IndexMut<usize> for Canvas: the write canvas[index] = v.
IndexMutUsize(W, H, maxOps, colors) ==
    /\ status = "running"
    /\ ops < maxOps
    /\ \E index \in 0..(W * H), v \in colors :
         IF IndexPanics(canvas, index)
         THEN /\ status' = "panicked"
              /\ UNCHANGED <<canvas, ops, expect>>
         ELSE /\ status' = status
              /\ canvas' = [canvas EXCEPT !.data[index + 1] = v]
              /\ ops' = ops + 1
              /\ expect' = {}
    /\ read' = <<>>
    /\ io' = IoIdle
    /\ walk' = <<>>
    /\ UNCHANGED <<dim0, calc>>

\* canvas.iter_mut().for_each(f)
IterMut(H, maxOps, colors) ==
    /\ status = "running"
    /\ ops < maxOps
    /\ \E v \in colors :
         \E f \in {FillAll(v)} \cup {FillRow(y, v) : y \in 0..H} :
            canvas' = iter_mut_for_each(canvas, f)
    /\ ops' = ops + 1
    /\ read' = <<>>
    /\ expect' = {}
    /\ io' = IoIdle
    /\ walk' = <<>>
    /\ UNCHANGED <<dim0, status, calc>>

\* canvas.iter().collect() or canvas.iter_mut().collect(): one full pass
\* that modifies nothing.
Iterate ==
    /\ status = "running"
    /\ Len(walk) < MaxWalks
    /\ \E kind \in {"iter", "iter_mut"} :
         walk' = Append(walk,
                    [kind |-> kind,
                     pairs |-> IF kind = "iter" THEN iter(canvas)
                               ELSE iter_mut(canvas)])
    /\ read' = <<>>
    /\ io' = IoIdle
    /\ UNCHANGED <<canvas, dim0, ops, status, expect, calc>>

\* The canvas of a run that only computes with Floats and Tuples.
canvasVars == <<canvas, dim0, ops, status, read, expect, io, walk>>
CanvasUnused ==
    /\ canvas = New(Coord2D(0, 0))
    /\ dim0 = Coord2D(0, 0)
    /\ ops = 0
    /\ status = "running"
    /\ read = <<>>
    /\ expect = {}
    /\ io = IoIdle
    /\ walk = <<>>

\* The operands a and b are at hand, nothing is computed yet.
Operands(a, b) == [op |-> "input", a |-> a, b |-> b, out |-> <<>>]

\* The operands at hand with the computation op done on them, giving out.
Computed(op, out) == [calc EXCEPT !.op = op, !.out = out]

\* a == b on Floats
FloatEq ==
    /\ calc.op = "input"
    /\ calc' = Computed("eq", Float_eq(calc.a, calc.b))
    /\ UNCHANGED canvasVars

\* a.partial_cmp(&b) on Floats
FloatPartialCmp ==
    /\ calc.op = "input"
    /\ calc' = Computed("partial_cmp", Float_partial_cmp(calc.a, calc.b))
    /\ UNCHANGED canvasVars

\* a + b on Tuples
TupleAdd ==
    /\ calc.op = "input"
    /\ calc' = Computed("add", Tuple_add(calc.a, calc.b))
    /\ UNCHANGED canvasVars

\* a - b on Tuples
TupleSub ==
    /\ calc.op = "input"
    /\ calc' = Computed("sub", Tuple_sub(calc.a, calc.b))
    /\ UNCHANGED canvasVars

\* a % b on Tuples
TupleRem ==
    /\ calc.op = "input"
    /\ calc' = Computed("rem", Tuple_rem(calc.a, calc.b))
    /\ UNCHANGED canvasVars

\* (a - b) + b on Tuples
TupleSubAdd ==
    /\ calc.op = "input"
    /\ calc' = Computed("sub_add", Tuple_add(Tuple_sub(calc.a, calc.b), calc.b))
    /\ UNCHANGED canvasVars

\* a.magnitude()
TupleMagnitude ==
    /\ calc.op = "input"
    /\ calc' = Computed("magnitude", magnitude(calc.a))
    /\ UNCHANGED canvasVars

\* a.normalize()
TupleNormalize ==
    /\ calc.op = "input"
    /\ calc' = Computed("normalize", normalize(calc.a))
    /\ UNCHANGED canvasVars

\* a.normalize().magnitude()
TupleNormalizeMagnitude ==
    /\ calc.op = "input"
    /\ calc' = Computed("normalize_magnitude", magnitude(normalize(calc.a)))
    /\ UNCHANGED canvasVars

\* The numbers of the sink calls a failure can be injected at: every call
\* of the run on a sink that never fails, when anyFail; none otherwise.
FailPoints(w, anyFail) == IF anyFail THEN NoFail..(w.sink.calls - 1) ELSE {NoFail}

\* canvas.write_ppm(&mut sink) on a fresh sink.
WritePpm(anyFail) ==
    /\ status = "running"
    /\ \E k \in FailPoints(write_ppm(canvas, NewSink(NoFail)), anyFail) :
         io' = IoDone("P3", write_ppm(canvas, NewSink(k)))
    /\ read' = <<>>
    /\ UNCHANGED <<canvas, dim0, ops, status, expect, walk, calc>>

\* canvas.write_binary_ppm(&mut sink) on a fresh sink.
WriteBinaryPpm(anyFail) ==
    /\ status = "running"
    /\ \E k \in FailPoints(write_binary_ppm(canvas, NewSink(NoFail)), anyFail) :
         io' = IoDone("P6", write_binary_ppm(canvas, NewSink(k)))
    /\ read' = <<>>
    /\ UNCHANGED <<canvas, dim0, ops, status, expect, walk, calc>>

\* ---------------------------------------------------------- specifications
\* The colors of the life-cycle specification: two for the writes by
\* coordinate, one for the writes by linear index and through iter_mut.
TwoColors == {LongLinesColor, ClampedColor}
OneColor == {LongLinesColor}

\* Canvas life-cycle on small canvases, serialized to a reliable sink.
Init == \E x \in 0..MaxDim, y \in 0..MaxDim : Constructed(x, y)

Next ==
    \/ IndexCoord(MaxDim, MaxDim)
    \/ IndexMutCoord(MaxDim, MaxDim, MaxOps, TwoColors)
    \/ IndexUsize(MaxDim, MaxDim)
    \/ IndexMutUsize(MaxDim, MaxDim, MaxOps, OneColor)
    \/ IterMut(MaxDim, MaxOps, OneColor)
    \/ WritePpm(FALSE)
    \/ WriteBinaryPpm(FALSE)

Spec == Init /\ [][Next]_vars

\* Serialization of small canvases to a sink that may fail at any call.
InitIO == \E x \in 0..MaxIODim, y \in 0..MaxIODim : Constructed(x, y)

NextIO ==
    \/ IterMut(MaxIODim, MaxIOOps, Palette)
    \/ WritePpm(TRUE)
    \/ WriteBinaryPpm(TRUE)

SpecIO == InitIO /\ [][NextIO]_vars

\* Serialization of wide canvases, whose rows overflow an output line:
\* rows filled with any color of the palette, single pixels written with
\* the two colors whose bytes have fewer than three digits.
WrapPixelColors == {ClampedColor, DimColor}

InitWrap == \E x \in 0..MaxWrapWidth, y \in 0..MaxWrapHeight : Constructed(x, y)

NextWrap ==
    \/ IterMut(MaxWrapHeight, MaxWrapOps, Palette)
    \/ IndexMutCoord(MaxWrapWidth, MaxWrapHeight, MaxWrapOps, WrapPixelColors)
    \/ WritePpm(FALSE)

SpecWrap == InitWrap /\ [][NextWrap]_vars

\* Iteration over small canvases, fresh or mutated once.
InitIter == \E x \in 0..MaxIterDim, y \in 0..MaxIterDim : Constructed(x, y)

NextIter ==
    \/ IterMut(MaxIterDim, MaxIterOps, OneColor)
    \/ IndexMutCoord(MaxIterDim, MaxIterDim, MaxIterOps, TwoColors)
    \/ Iterate

SpecIter == InitIter /\ [][NextIter]_vars

\* Comparison of two Floats: NaN, the infinities, and finite values close
\* to 0.0 and to 1.0, so that differences on both sides of EPSILON occur.
ScalarInputs ==
    {NaN, Infinity(1), Infinity(-1)}
        \cup {Finite(base * ScalarUnit + k) :
                 base \in {0, 1}, k \in (-MaxOffset)..MaxOffset}

InitFloat ==
    /\ CanvasUnused
    /\ \E a \in ScalarInputs, b \in ScalarInputs : calc = Operands(a, b)

NextFloat ==
    \/ FloatEq
    \/ FloatPartialCmp

SpecFloat == InitFloat /\ [][NextFloat]_vars

\* Arithmetic of two Tuples: x is NaN, an infinity or a small integer, y a
\* small integer, z is 0.0 or -2.5, and w is 0.0 (a vector), 1.0 (a point),
\* 2.0 or NaN.
XValues ==
    {NaN, Infinity(1), Infinity(-1)} \cup {Whole(k) : k \in (-MaxCoord)..MaxCoord}
YValues == {Whole(k) : k \in 0..MaxCoord}
ZValues == {Whole(0), Ratio(-5, 2)}
WValues == {Whole(0), Whole(1), Whole(2), NaN}
TupleInputs ==
    {Tuple_new(x, y, z, w) :
        x \in XValues, y \in YValues, z \in ZValues, w \in WValues}

InitTuple ==
    /\ CanvasUnused
    /\ \E a \in TupleInputs, b \in TupleInputs : calc = Operands(a, b)

NextTuple ==
    \/ TupleAdd
    \/ TupleSub
    \/ TupleRem
    \/ TupleSubAdd

SpecTuple == InitTuple /\ [][NextTuple]_vars

\* Normalization of one Tuple, a vector or a point, whose x, y and z are
\* NaN, an infinity, a quarter or a small integer.
NormValues ==
    {NaN, Infinity(1), Ratio(1, 4)} \cup {Whole(k) : k \in (-MaxNorm)..MaxNorm}
NormInputs ==
    {Tuple_new(x, y, z, w) :
        x \in NormValues, y \in NormValues, z \in NormValues,
        w \in {Whole(0), Whole(1)}}

InitNorm ==
    /\ CanvasUnused
    /\ \E a \in NormInputs : calc = Operands(a, zero)

NextNorm ==
    \/ TupleMagnitude
    \/ TupleNormalize
    \/ TupleNormalizeMagnitude

SpecNorm == InitNorm /\ [][NextNorm]_vars

\* ------------------------------------------------- reading the output back
\* The decimal text of a dimension below 100, written out digit by digit.
Decimal(n) ==
    IF n < 10 THEN <<Digit0 + n>> ELSE <<Digit0 + (n \div 10), Digit0 + (n % 10)>>

\* "P3\n<w> <h>\n255\n" (kind = 51, '3') or "P6\n<w> <h>\n255\n" (54, '6').
HeaderText(kind, dim) ==
    <<80, kind, NL>> \o Decimal(dim.x) \o <<SP>> \o Decimal(dim.y)
        \o <<NL, 50, 53, 53, NL>>

\* The bytes the sink holds, and the part of them after the header.
Out == io.sink.bytes
HeaderLen == Len(HeaderText(51, canvas.dim))
Body == SubSeq(Out, HeaderLen + 1, Len(Out))

\* The lines of a text: a line starts at the first byte and after every
\* newline, and ends before the next newline or, unterminated, with the
\* text.  LineLengths is the set of <<start, length>> of the lines.
LineStarts(text) ==
    {i \in 1..Len(text) : i = 1 \/ text[i - 1] = NL}
LineEnd(text, start) ==
    LET nls == {j \in start..Len(text) : text[j] = NL}
    IN  IF nls = {} THEN Len(text) + 1
        ELSE CHOOSE j \in nls : \A k \in nls : j <= k
LineLengths(text) ==
    {<<a, LineEnd(text, a) - a>> : a \in LineStarts(text)}

\* The values of a text of decimal numbers: a value starts where a digit
\* follows a newline, a space or nothing.  FirstOnLine is the set of the
\* 0-based numbers of the values that are the first on their line.
IsDigit(b) == b >= Digit0 /\ b <= Digit0 + 9
ValueStarts(text) ==
    {i \in 1..Len(text) : IsDigit(text[i]) /\ (i = 1 \/ ~IsDigit(text[i - 1]))}
FirstOnLine(text) ==
    LET starts == ValueStarts(text)
    IN  {Cardinality({q \in starts : q < p}) :
            p \in {p \in starts : p = 1 \/ text[p - 1] = NL}}

AsciiDone == io.format = "P3" /\ io.res.ok
BinaryDone == io.format = "P6" /\ io.res.ok

\* ------------------------------------------------------------------ claims
\* C1: every line of the ASCII PPM body is at most 70 characters long, the
\* terminating newline not counted, whatever the canvas holds.
C1_LinesAtMost70 ==
    io.format = "P3" =>
        \A line \in LineLengths(Body) : line[2] <= 70

\* A two-row canvas was written and one of its rows was wrapped: the body
\* has more lines than rows and a line no further value fitted on.
C1_Witness ==
    /\ AsciiDone
    /\ canvas.dim.y = 2
    /\ LET lens == LineLengths(Body)
       IN  /\ Cardinality(lens) > 2
           /\ \E line \in lens : line[2] >= 67

\* C2: in the ASCII body of a canvas of width >= 1, the red value of pixel
\* (0, y) starts a new output line for every row y >= 1, so no output line
\* holds values of two canvas rows.
C2_RowStartsLine ==
    (AsciiDone /\ canvas.dim.x >= 1) =>
        LET first == FirstOnLine(Body)
        IN  \A y \in 1..(canvas.dim.y - 1) : (3 * canvas.dim.x * y) \in first

\* A second row was written after a first row that ended on a wrapped,
\* partly filled line.
C2_Witness ==
    /\ AsciiDone
    /\ canvas.dim.x >= 1
    /\ canvas.dim.y = 2
    /\ Cardinality(FirstOnLine(Body)) > 2
    /\ (3 * canvas.dim.x) \in FirstOnLine(Body)

\* C3: indexing by a coordinate (x, y) with x >= width or y >= height, for
\* reading or for writing, ends in a panic: it is never accepted and never
\* reads or modifies a cell.
C3_OutOfRangeFaults ==
    [][\A x \in 0..(MaxDim + 1), y \in 0..(MaxDim + 1) :
          LET c == Coord2D(x, y)
          IN  (/\ ~InRange(c, canvas.dim)
               /\ \/ IndexCoordAt(c)
                  \/ \E v \in TwoColors : IndexMutCoordAt(c, v))
              => (status' = "panicked" /\ canvas' = canvas /\ read' = <<>>)]_vars

\* C4: when a write to the sink fails during write_ppm or write_binary_ppm,
\* the call returns that very error and the failed write is the last call
\* the sink receives.
C4_AbortOnError ==
    (io.format # "none" /\ io.sink.failAt # NoFail /\ io.sink.calls > io.sink.failAt)
        => /\ io.res = ErrResult(io.sink.failAt)
           /\ io.sink.calls = io.sink.failAt + 1

\* A write failed in the body of an ASCII serialization, after the header
\* and some values went through.
C4_Witness ==
    /\ io.format = "P3"
    /\ ~io.res.ok
    /\ io.sink.failAt > 8
    /\ Len(Out) > HeaderLen + 2
    /\ canvas.dim.y = 2

\* C5: the byte written for a channel value v is clamp(round(v * 255), 0,
\* 255): it lies in 0..255, is 0 for v < 0 and 255 for v > 1, is the integer
\* nearest to v * 255 (halves up) in between, so 128 for 0.5; and a sink
\* that does not fail makes the serialization succeed whatever the values.
C5_Byte(v, b) ==
    /\ b \in 0..255
    /\ (v < 0) => (b = 0)
    /\ (v > FloatUnit) => (b = 255)
    /\ (v >= 0 /\ v <= FloatUnit) =>
          /\ 2 * (b * FloatUnit - 255 * v) <= FloatUnit
          /\ 2 * (b * FloatUnit - 255 * v) > -FloatUnit
    /\ (2 * v = FloatUnit) => (b = 128)
    /\ (2 * v = 3 * FloatUnit) => (b = 255)
    /\ (2 * v = -FloatUnit) => (b = 0)

C5_ByteConversion ==
    /\ (io.format # "none" /\ io.sink.failAt = NoFail) => io.res.ok
    /\ BinaryDone =>
          \A i \in 1..Len(canvas.data), k \in 1..3 :
             C5_Byte(canvas.data[i][k], Out[HeaderLen + 3 * (i - 1) + k])

\* A canvas holding 1.5, 0.5 and -0.5 was written in binary.
C5_Witness ==
    /\ BinaryDone
    /\ \E i \in 1..Len(canvas.data) : canvas.data[i] = ClampedColor
    /\ \E j \in (HeaderLen + 1)..Len(Out) : Out[j] = 128

\* C6: the output of write_ppm starts with exactly "P3\n<w> <h>\n255\n",
\* w and h in decimal, and ends with a newline; for a 5 x 3 canvas the
\* header is "P3\n5 3\n255\n".
C6_HeaderExact ==
    /\ AsciiDone =>
          /\ SubSeq(Out, 1, HeaderLen) = HeaderText(51, canvas.dim)
          /\ Out[Len(Out)] = NL
    /\ LET out53 == write_ppm(New(Coord2D(5, 3)), NewSink(NoFail)).sink.bytes
       IN  /\ SubSeq(out53, 1, 11) = <<80, 51, 10, 53, 32, 51, 10, 50, 53, 53, 10>>
           /\ out53[12] = Digit0
           /\ out53[Len(out53)] = NL

\* A canvas with a two-digit width and a different height was written.
C6_Witness ==
    /\ AsciiDone
    /\ canvas.dim.x >= 10
    /\ canvas.dim.y = 2
    /\ Len(Out) > HeaderLen + 1

\* C7: the output of write_binary_ppm is the header "P6\n<w> <h>\n255\n",
\* then 3*w*h bytes, the R, G, B of each pixel in row-major order with
\* nothing in between, then one newline.
C7_BinaryExact ==
    BinaryDone =>
        /\ Len(Out) = HeaderLen + 3 * canvas.dim.x * canvas.dim.y + 1
        /\ SubSeq(Out, 1, HeaderLen) = HeaderText(54, canvas.dim)
        /\ Out[Len(Out)] = NL
        /\ \A x \in 0..(canvas.dim.x - 1), y \in 0..(canvas.dim.y - 1), k \in 1..3 :
              Out[HeaderLen + 3 * (x + canvas.dim.x * y) + k]
                 = u8_representation(canvas.data[x + canvas.dim.x * y + 1][k])
        /\ \A e \in expect, k \in 1..3 :
              Out[HeaderLen + 3 * (e.at.x + canvas.dim.x * e.at.y) + k]
                 = u8_representation(e.val[k])

\* A 2 x 2 canvas with two pixels written by coordinate went out in binary.
C7_Witness ==
    /\ BinaryDone
    /\ canvas.dim = Coord2D(2, 2)
    /\ Cardinality(expect) = 2

\* C8: a read at an in-range coordinate returns the color last written
\* there by coordinate, whatever was written to other in-range coordinates
\* in between.
C8_WriteThenRead ==
    (read # <<>> /\ read[1].coord # <<>>) =>
        \A e \in expect : (e.at = read[1].coord[1]) => (read[1].val = e.val)

\* Two coordinates were written, with different colors, and one was read.
C8_Witness ==
    /\ read # <<>>
    /\ read[1].coord # <<>>
    /\ Cardinality(expect) = 2
    /\ \E e \in expect : e.at = read[1].coord[1] /\ e.val = read[1].val
    /\ \E e \in expect : e.at # read[1].coord[1] /\ e.val # read[1].val

\* C9: a freshly constructed canvas of dimension (w, h) has w*h cells, all
\* of them black.
C9_FreshIsBlack ==
    (ops = 0) =>
        /\ Len(canvas.data) = canvas.dim.x * canvas.dim.y
        /\ \A i \in 1..Len(canvas.data) : canvas.data[i] = Black
        /\ (read # <<>>) => (read[1].val = Black)

\* The last cell of a fresh 2 x 2 canvas was read.
C9_Witness ==
    /\ ops = 0
    /\ canvas.dim = Coord2D(2, 2)
    /\ read # <<>>
    /\ read[1].index = 3

\* C10: after any sequence of operations the grid holds width*height
\* colors and the dimension is the one given to Canvas::new.
C10_NeverResizes ==
    /\ Len(canvas.data) = dim0.x * dim0.y
    /\ canvas.dim = dim0
    /\ size(canvas) = dim0.x * dim0.y
    /\ get_dim(canvas) = dim0

\* A canvas was written by coordinate and through iter_mut and serialized.
C10_Witness ==
    /\ ops = 2
    /\ io.format # "none"
    /\ canvas.dim = Coord2D(2, 2)
    /\ Cardinality({i \in 1..Len(canvas.data) : canvas.data[i] # Black}) = 3

\* C11: every iteration of the canvas, by iter or by iter_mut, yields
\* exactly width*height pairs in row-major order: pair i (from 0) is the
\* coordinate (i mod width, i div width) with the color stored at linear
\* index i; and iterations not separated by a mutation yield the same
\* sequence.
C11_RowMajorPairs ==
    \A k \in 1..Len(walk) :
        LET pairs == walk[k].pairs
            w == canvas.dim.x
            h == canvas.dim.y
        IN  /\ Len(pairs) = w * h
            /\ \A i \in 0..(w * h - 1) :
                  /\ pairs[i + 1].coord = [x |-> i % w, y |-> i \div w]
                  /\ pairs[i + 1].color = canvas.data[i + 1]
            /\ \A x \in 0..(w - 1), y \in 0..(h - 1) :
                  pairs[y * w + x + 1].coord = [x |-> x, y |-> y]
            /\ pairs = walk[1].pairs

\* A 2 x 2 canvas with a written cell in its second row was iterated
\* twice, once by iter and once by iter_mut.
C11_Witness ==
    /\ Len(walk) = 2
    /\ walk[1].kind # walk[2].kind
    /\ canvas.dim = Coord2D(2, 2)
    /\ canvas.data[3] # Black
    /\ canvas.data[1] = Black

\* The difference of m / ScalarUnit and n / ScalarUnit is below 0.00001.
Near(m, n) ==
    LET d == AbsInt(m - n)
    IN  d < UnitRoot /\ d * 100000 < ScalarUnit

\* C12 as stated: for all Scalars a and b, a == b holds iff |a - b| < 1e-5,
\* a == a holds for every a, and a == b iff b == a.
C12_EqReflexiveForAll ==
    (calc.op = "eq") =>
        /\ (is_finite(calc.a) /\ is_finite(calc.b)) =>
              (calc.out <=> Near(calc.a.n, calc.b.n))
        /\ Float_eq(calc.a, calc.a)
        /\ calc.out <=> Float_eq(calc.b, calc.a)

\* C12, amended: for all Scalars a and b, a == b holds iff the computed
\* |a - b| is below 1e-5, which for finite a and b is their distance; the
\* equality is symmetric for all a and b, and reflexive exactly for the
\* finite a: NaN and the infinities are not equal to themselves.
C12_EqReflexiveForFinite ==
    (calc.op = "eq") =>
        /\ (is_finite(calc.a) /\ is_finite(calc.b)) =>
              (calc.out <=> Near(calc.a.n, calc.b.n))
        /\ Float_eq(calc.a, calc.a) <=> is_finite(calc.a)
        /\ calc.out <=> Float_eq(calc.b, calc.a)
        /\ (~is_finite(calc.a) \/ ~is_finite(calc.b)) => ~calc.out

\* Two different finite Floats, one below and one above 1.0, compared
\* equal.
C12_Witness ==
    /\ calc.op = "eq"
    /\ calc.out = TRUE
    /\ is_finite(calc.a) /\ is_finite(calc.b)
    /\ calc.a.n < ScalarUnit /\ calc.b.n > ScalarUnit
    /\ calc.b.n - calc.a.n = 10

\* The raw f64 order of two Scalars, read off their values: NaN is below
\* and above nothing.
RawRank(f) == IF f.cls = "inf" THEN f.n * 4 * ScalarUnit ELSE f.n
RawLess(a, b) == ~is_nan(a) /\ ~is_nan(b) /\ RawRank(a) < RawRank(b)

\* The three comparisons of the operands of a partial_cmp.
CmpLess == calc.out = <<"Less">>
CmpEqual == calc.out = <<"Equal">>
CmpGreater == calc.out = <<"Greater">>

\* C13 as stated: for all Scalars a and b, if a == b then neither a < b nor
\* a > b; otherwise a < b iff the raw value of a is below that of b, and
\* a > b iff it is above; so exactly one of a < b, a == b, a > b holds.
C13_ExactlyOneForAll ==
    (calc.op = "partial_cmp") =>
        /\ CmpEqual <=> Float_eq(calc.a, calc.b)
        /\ CmpEqual => (~CmpLess /\ ~CmpGreater)
        /\ ~CmpEqual => /\ CmpLess <=> RawLess(calc.a, calc.b)
                        /\ CmpGreater <=> RawLess(calc.b, calc.a)
        /\ CmpLess \/ CmpEqual \/ CmpGreater

\* C13, amended: for all Scalars a and b, if a == b then neither a < b nor
\* a > b; otherwise a < b iff the raw value of a is below that of b, and
\* a > b iff it is above; so at most one of a < b, a == b, a > b holds, and
\* exactly one unless an operand is NaN or both are the same infinity, when
\* none holds.
C13_ExactlyOneUnlessUnordered ==
    (calc.op = "partial_cmp") =>
        /\ CmpEqual <=> Float_eq(calc.a, calc.b)
        /\ CmpEqual => (~CmpLess /\ ~CmpGreater)
        /\ ~CmpEqual => /\ CmpLess <=> RawLess(calc.a, calc.b)
                        /\ CmpGreater <=> RawLess(calc.b, calc.a)
        /\ ~(CmpLess /\ CmpGreater)
        /\ (CmpLess \/ CmpEqual \/ CmpGreater) <=>
              ~(\/ is_nan(calc.a)
                \/ is_nan(calc.b)
                \/ (calc.a.cls = "inf" /\ calc.a = calc.b))
        /\ CmpLess <=> Float_lt(calc.a, calc.b)
        /\ CmpGreater <=> Float_gt(calc.a, calc.b)

\* Two finite Floats whose raw values differ by less than EPSILON were
\* ordered: they compared equal although the first is the smaller.
C13_Witness ==
    /\ calc.op = "partial_cmp"
    /\ CmpEqual
    /\ is_finite(calc.a) /\ is_finite(calc.b)
    /\ calc.b.n - calc.a.n = 9

\* The operands and the result of the Tuple computation at hand.
A == calc.a
B == calc.b
Result == calc.out
IsPointW(t) == t[4] = Whole(1)
IsVectorW(t) == t[4] = Whole(0)
AllFinite(t) == \A i \in 1..4 : is_finite(t[i])

XyzFinite(t) == \A i \in 1..3 : is_finite(t[i])

\* C16 as stated: for all tuples a and b, whatever their w, a % b has
\* w = 0 and is equal (==, on all four components) to -(b % a).
C16_AnticommutativeForAll ==
    (calc.op = "rem") =>
        /\ Result[4] = Whole(0)
        /\ is_vector(Result)
        /\ Tuple_eq(Result, Tuple_neg(Tuple_rem(B, A)))

\* C16, amended: for all tuples a and b, whatever their w, a % b has w = 0;
\* and when the x, y and z of a and of b are finite (and their products do
\* not overflow), a % b is equal (==, on all four components) to -(b % a).
C16_AnticommutativeForFinite ==
    (calc.op = "rem") =>
        /\ Result[4] = Whole(0)
        /\ is_vector(Result)
        /\ (XyzFinite(A) /\ XyzFinite(B)) =>
              /\ Tuple_eq(Result, Tuple_neg(Tuple_rem(B, A)))
              /\ LET back == Tuple_rem(B, A)
                 IN  \A i \in 1..3 : Result[i].n + back[i].n = 0
              /\ LET ax == A[1].n \div ScalarUnit
                     ay == A[2].n \div ScalarUnit
                     bx == B[1].n \div ScalarUnit
                     by == B[2].n \div ScalarUnit
                 IN  Result[3].n = (ax * by - ay * bx) * ScalarUnit

\* The cross product of two finite tuples that are no vectors (w = 2 and
\* w = NaN) is a vector with three non-zero components.
C16_Witness ==
    /\ calc.op = "rem"
    /\ A[4] = Whole(2)
    /\ is_nan(B[4])
    /\ XyzFinite(A) /\ XyzFinite(B)
    /\ \A i \in 1..3 : Result[i].n # 0
    /\ Result[4] = Whole(0)

SquareSum(t) ==
    MulUnits(AbsInt(t[1].n), AbsInt(t[1].n)) + MulUnits(AbsInt(t[2].n), AbsInt(t[2].n))
        + MulUnits(AbsInt(t[3].n), AbsInt(t[3].n)) + MulUnits(AbsInt(t[4].n), AbsInt(t[4].n))

\* C18 as stated: for all vectors v with magnitude(v) > 0, the magnitude of
\* normalize(v) is equal (==) to 1.0.
C18_UnitLengthForAll ==
    (/\ calc.op = "normalize_magnitude"
     /\ is_vector(A)
     /\ f64_gt(magnitude(A), Whole(0)))
        => Float_eq(Result, Whole(1))

\* C18, amended: for all vectors v with finite components and
\* magnitude(v) > 0 (the squares neither overflowing nor vanishing), the
\* magnitude of normalize(v) is equal (==) to 1.0, the magnitude of a tuple
\* being the square root of the sum of the squares of its four components;
\* a vector with an infinite component has an infinite magnitude and
\* normalizes to a tuple of NaN magnitude.
C18_UnitLengthForFinite ==
    /\ (/\ calc.op = "normalize_magnitude"
        /\ is_vector(A)
        /\ AllFinite(A)
        /\ f64_gt(magnitude(A), Whole(0)))
          => /\ Float_eq(Result, Whole(1))
             /\ Near(Result.n, ScalarUnit)
    /\ (/\ calc.op = "normalize_magnitude"
        /\ \E i \in 1..3 : A[i] = Infinity(1)
        /\ \A i \in 1..3 : ~is_nan(A[i]))
          => (magnitude(A) = Infinity(1) /\ is_nan(Result))
    /\ (calc.op = "magnitude" /\ AllFinite(A))
          => /\ is_finite(Result)
             /\ Result.n >= 0
             /\ Near(MulUnits(Result.n, Result.n), SquareSum(A))
    /\ (calc.op = "normalize" /\ AllFinite(A) /\ f64_gt(magnitude(A), Whole(0)))
          => \A i \in 1..4 :
                /\ is_finite(Result[i])
                /\ Sign(Result[i].n) = Sign(A[i].n)
                /\ Near(MulUnits(AbsInt(Result[i].n), magnitude(A).n), AbsInt(A[i].n))

\* The vector (1, 2, -2), of magnitude 3, was normalized and measured.
C18_Witness ==
    /\ calc.op = "normalize_magnitude"
    /\ A = vector(Whole(1), Whole(2), Whole(-2))
    /\ magnitude(A) = Whole(3)
    /\ Near(Result.n, ScalarUnit)

\* C19: a write to an in-range coordinate c is accepted and changes the
\* cell at c only: the cells at all other in-range coordinates and the
\* dimension keep their values; distinct in-range coordinates have distinct
\* linear indices below width*height.
C19_WriteFrame ==
    [][\A x \in 0..MaxIterDim, y \in 0..MaxIterDim, v \in TwoColors :
          LET c == Coord2D(x, y)
              w == canvas.dim.x
              h == canvas.dim.y
          IN  (InRange(c, canvas.dim) /\ IndexMutCoordAt(c, v))
              => /\ status' = "running"
                 /\ canvas'.dim = canvas.dim
                 /\ Len(canvas'.data) = Len(canvas.data)
                 /\ canvas'.data[x + w * y + 1] = v
                 /\ \A x2 \in 0..(w - 1), y2 \in 0..(h - 1) :
                       (x2 # x \/ y2 # y) =>
                           /\ canvas'.data[x2 + w * y2 + 1] = canvas.data[x2 + w * y2 + 1]
                           /\ to_index(Coord2D(x2, y2), canvas.dim) # to_index(c, canvas.dim)
                           /\ to_index(Coord2D(x2, y2), canvas.dim) < w * h]_vars

\* Two cells of a 2 x 2 canvas, in different rows and columns, were written
\* by coordinate with different colors; the other two are still black.
C19_Witness ==
    /\ canvas.dim = Coord2D(2, 2)
    /\ ops = 2
    /\ status = "running"
    /\ expect = {[at |-> Coord2D(1, 0), val |-> LongLinesColor],
                 [at |-> Coord2D(0, 1), val |-> ClampedColor]}
    /\ canvas.data = <<Black, LongLinesColor, ClampedColor, Black>>

\* The number a text of digits holds from position p on, after acc.
RECURSIVE DigitsValue(_, _, _)
DigitsValue(text, p, acc) ==
    IF p <= Len(text) /\ IsDigit(text[p])
    THEN DigitsValue(text, p + 1, 10 * acc + (text[p] - Digit0))
    ELSE acc

\* The binary body of the canvas: the bytes write_binary_ppm puts between
\* its header and its closing newline.
BinaryBody ==
    LET out == write_binary_ppm(canvas, NewSink(NoFail)).sink.bytes
    IN  SubSeq(out, HeaderLen + 1, Len(out) - 1)

\* C20: the ASCII body, read as decimal integers separated by blanks and
\* newlines, holds exactly 3*width*height values, the R, G, B of each pixel
\* in row-major order, equal one by one to the bytes of the binary body of
\* the same canvas; values on a line are separated by exactly one space,
\* no line starts or ends with a space; and a serialization leaves the
\* canvas unchanged.
C20_AsciiMatchesBinary ==
    /\ [](AsciiDone =>
            LET text == Body
                starts == ValueStarts(text)
                bin == BinaryBody
            IN  /\ Cardinality(starts) = 3 * canvas.dim.x * canvas.dim.y
                /\ Len(bin) = 3 * canvas.dim.x * canvas.dim.y
                /\ \A p \in starts :
                      LET k == Cardinality({q \in starts : q < p})
                          val == DigitsValue(text, p, 0)
                      IN  /\ val = bin[k + 1]
                          /\ val = u8_representation(canvas.data[(k \div 3) + 1][(k % 3) + 1])
                /\ \A i \in 1..Len(text) :
                      /\ IsDigit(text[i]) \/ text[i] = SP \/ text[i] = NL
                      /\ (text[i] = SP) =>
                            /\ i > 1 /\ IsDigit(text[i - 1])
                            /\ i < Len(text) /\ IsDigit(text[i + 1]))
    /\ [][(io' # io /\ io'.format # "none") => canvas' = canvas]_vars

\* A two-row canvas at least eight pixels wide, with one row of channel
\* bytes 26, 51, 102 and one black row, was written as ASCII on wrapped
\* lines.
C20_Witness ==
    /\ AsciiDone
    /\ canvas.dim.x >= 8
    /\ canvas.dim.y = 2
    /\ Cardinality({i \in 1..Len(canvas.data) : canvas.data[i] = DimColor})
          = canvas.dim.x
    /\ canvas.data[1] = Black
    /\ Cardinality(LineStarts(Body)) > 2
    /\ \E p \in ValueStarts(Body) : DigitsValue(Body, p, 0) = 102

\* The number of digits of the value that starts at position p of a text.
ValueLen(text, p) ==
    LET stops == {j \in p..(Len(text) + 1) : j > Len(text) \/ ~IsDigit(text[j])}
    IN  (CHOOSE j \in stops : \A k \in stops : j <= k) - p

\* The length of the line that ends with the newline before position a.
LineBefore(text, a) ==
    LET before == {s \in LineStarts(text) : s < a}
    IN  (a - 1) - (CHOOSE s \in before : \A t \in before : t <= s)

\* The position of the first value of a text at or after position a.
ValueFrom(text, a) ==
    LET later == {p \in ValueStarts(text) : p >= a}
    IN  CHOOSE p \in later : \A q \in later : p <= q

\* The line breaks of a text inside a canvas row of the given width: the
\* starts of the lines, the first excepted, that are followed by a value
\* which is not the first value (the red of column 0) of a row.
MidRowBreaks(text, width) ==
    LET starts == ValueStarts(text)
    IN  {a \in LineStarts(text) :
            /\ a > 1
            /\ \E p \in starts : p >= a
            /\ (Cardinality({q \in starts : q < a}) % (3 * width)) # 0}

\* C21: in the ASCII body, a line is broken before a value that is not the
\* first value of a canvas row only when the length of the current line
\* plus one space plus the digits of the value would exceed 70, so every
\* line that ends inside a canvas row is maximal; and no line of the body
\* of a canvas of width and height >= 1 is empty.
C21_BreakOnlyWhenFull ==
    (AsciiDone /\ canvas.dim.x >= 1 /\ canvas.dim.y >= 1) =>
        /\ \A a \in MidRowBreaks(Body, canvas.dim.x) :
              LineBefore(Body, a) + 1 + ValueLen(Body, ValueFrom(Body, a))
                  > MaxLineWidth
        /\ \A line \in LineLengths(Body) : line[2] >= 1

\* A two-row canvas was written with a line broken inside a row before a
\* value that would just not have fitted: 67 characters, a space and three
\* digits make 71.
C21_Witness ==
    /\ AsciiDone
    /\ canvas.dim.y = 2
    /\ \E a \in MidRowBreaks(Body, canvas.dim.x) :
          /\ LineBefore(Body, a) = MaxLineWidth - 3
          /\ ValueLen(Body, ValueFrom(Body, a)) = 3

====
